---- MODULE Spec2Model ----
(***************************************************************************)
(* taskcli.py: a task list kept in tasks.json.  Every invocation of the    *)
(* tool loads the whole file, transforms the collection in memory and, for *)
(* a mutating command, writes the whole collection back.                   *)
(*                                                                         *)
(* An invocation is a process p.  A handler that saves is split at the     *)
(* points where another invocation can touch the file: after load_tasks()  *)
(* and, for delete, at the blocking input() prompt.                        *)
(***************************************************************************)
EXTENDS Integers, Sequences, FiniteSets, TLC

(* ---------------------------------------------------------------- bounds *)
\* invocations of the tool in one behaviour, one at a time
MaxRuns == 4
\* invocations of the tool in one behaviour, two at a time
MaxConcRuns == 3
\* datetime.now() reads a value in 0..MaxTime
MaxTime == 1
\* length of the collections handed to filter_tasks
MaxColl == 3

(* ------------------------------------------------------------ value sets *)
\* Python's None, for the optional fields; a present value x is <<x>>
None == <<>>
Some(x) == <<x>>

Times == 0..MaxTime
\* a date text "YYYY-MM-DD" is the triple <<year, month, day>> of its fields
Jan1 == <<2024, 1, 1>>
Jan2 == <<2024, 1, 2>>
Feb30 == <<2024, 2, 30>>
\* a text is a sequence of characters
Keywords == {<<"a">>, <<"B">>}
Tags == {"t"}
Answers == {<<"y">>, <<" ", "Y", "E", "S", " ">>, <<"n">>, <<>>}
Procs == {1, 2}
SeqProcs == {1}

VARIABLES
    file,     \* tasks.json: [kind, tasks]
    pc,       \* pc[p]: where invocation p stands
    cmd,      \* cmd[p]: the subcommand of p's current or last invocation
    arg,      \* arg[p]: its arguments
    tasks,    \* tasks[p]: the list p loaded (the handler's local `tasks`)
    out,      \* out[p]: what p's last finished invocation printed, and its exit status
    prev,     \* prev[p]: cmd, id and message of the invocation before that
    stdin,    \* stdin[p]: the last line p read at the delete prompt
    assigned, \* history: every id an add has assigned so far
    runs      \* invocations started so far

vars == <<file, pc, cmd, arg, tasks, out, prev, stdin, assigned, runs>>

(* ------------------------------------------------------------- the store *)
Absent == [kind |-> "absent", tasks |-> <<>>]
Blank == [kind |-> "blank", tasks |-> <<>>]
BadJson == [kind |-> "badjson", tasks |-> <<>>]
NotList == [kind |-> "notlist", tasks |-> <<>>]
\* json.dumps of a list: a file whose JSON value is that list
JsonList(ts) == [kind |-> "list", tasks |-> ts]
\* an element of the JSON list that is no object, such as the number 5
NonRecord == [json |-> "number"]
IsRecord(t) == "id" \in DOMAIN t
\* t.get(...) on some element raises AttributeError
HasNonRecord(ts) == \E i \in 1..Len(ts) : ~IsRecord(ts[i])

\* load_tasks: the list, or the fatal exit
load_tasks(f) ==
    IF f.kind = "absent" THEN [ok |-> TRUE, data |-> <<>>, msg |-> ""]
    ELSE IF f.kind = "blank" THEN [ok |-> TRUE, data |-> <<>>, msg |-> ""]
    ELSE IF f.kind = "badjson" THEN [ok |-> FALSE, data |-> <<>>, msg |-> "broken"]
    ELSE IF f.kind # "list" THEN [ok |-> FALSE, data |-> <<>>, msg |-> "not_array"]
    ELSE [ok |-> TRUE, data |-> f.tasks, msg |-> ""]

save_tasks(ts) == JsonList(ts)

(* ------------------------------------------------------------ pure parts *)
Max(S) == CHOOSE m \in S : \A x \in S : x <= m

\* variant: the id from the number of tasks, not from the largest id
next_id_count(ts) == Len(ts) + 1

next_id(ts) == Max({ts[i].id : i \in 1..Len(ts)} \cup {0}) + 1

IsLeap(y) == (y % 4 = 0 /\ y % 100 # 0) \/ y % 400 = 0

DaysIn(y, m) ==
    IF m = 2 THEN (IF IsLeap(y) THEN 29 ELSE 28)
    ELSE IF m \in {4, 6, 9, 11} THEN 30 ELSE 31

\* datetime.strptime(value, "%Y-%m-%d") does not raise ValueError
strptime_ok(d) == d[1] >= 1 /\ d[2] \in 1..12 /\ d[3] \in 1..DaysIn(d[1], d[2])

parse_date(d) == strptime_ok(d)

DateLess(a, b) ==
    \/ a[1] < b[1]
    \/ a[1] = b[1] /\ a[2] < b[2]
    \/ a[1] = b[1] /\ a[2] = b[2] /\ a[3] < b[3]

is_overdue(task, today) ==
    IF task.done THEN FALSE
    ELSE IF task.due = None THEN FALSE
    ELSE IF ~strptime_ok(task.due[1]) THEN FALSE
    ELSE DateLess(task.due[1], today)

\* [t for t in ts if Keep(t)]
RECURSIVE SelectIdx(_, _, _)
SelectIdx(ts, keep, i) ==
    IF i > Len(ts) THEN <<>>
    ELSE (IF i \in keep THEN <<ts[i]>> ELSE <<>>) \o SelectIdx(ts, keep, i + 1)

\* sorted(ts, key=id): stable insertion of each element after the smaller or equal ones
RECURSIVE Insert(_, _)
Insert(sorted, t) ==
    IF sorted = <<>> THEN <<t>>
    ELSE IF t.id < Head(sorted).id THEN <<t>> \o sorted
    ELSE <<Head(sorted)>> \o Insert(Tail(sorted), t)

RECURSIVE SortedById(_)
SortedById(ts) ==
    IF ts = <<>> THEN <<>>
    ELSE Insert(SortedById(SubSeq(ts, 1, Len(ts) - 1)), ts[Len(ts)])

\* variant: the result in storage order, the sort left out
filter_tasks_unsorted(ts, include_done, only_done, tag, overdue_only, today) ==
    LET r1 == IF tag # None
              THEN SelectIdx(ts, {i \in 1..Len(ts) : ts[i].tag = tag}, 1)
              ELSE ts
        r2 == IF only_done
              THEN SelectIdx(r1, {i \in 1..Len(r1) : r1[i].done}, 1)
              ELSE IF ~include_done
              THEN SelectIdx(r1, {i \in 1..Len(r1) : ~r1[i].done}, 1)
              ELSE r1
    IN IF overdue_only
       THEN SelectIdx(r2, {i \in 1..Len(r2) : is_overdue(r2[i], today)}, 1)
       ELSE r2

filter_tasks(ts, include_done, only_done, tag, overdue_only, today) ==
    LET r1 == IF tag # None
              THEN SelectIdx(ts, {i \in 1..Len(ts) : ts[i].tag = tag}, 1)
              ELSE ts
        r2 == IF only_done
              THEN SelectIdx(r1, {i \in 1..Len(r1) : r1[i].done}, 1)
              ELSE IF ~include_done
              THEN SelectIdx(r1, {i \in 1..Len(r1) : ~r1[i].done}, 1)
              ELSE r1
        r3 == IF overdue_only
              THEN SelectIdx(r2, {i \in 1..Len(r2) : is_overdue(r2[i], today)}, 1)
              ELSE r2
    IN SortedById(r3)

\* str.lower / str.casefold on the characters in use
Lower(c) ==
    IF c = "A" THEN "a" ELSE IF c = "B" THEN "b" ELSE IF c = "Y" THEN "y"
    ELSE IF c = "E" THEN "e" ELSE IF c = "S" THEN "s" ELSE IF c = "N" THEN "n" ELSE c

casefold(s) == [i \in 1..Len(s) |-> Lower(s[i])]

\* str.strip
RECURSIVE lstrip(_)
lstrip(s) == IF s # <<>> /\ Head(s) = " " THEN lstrip(Tail(s)) ELSE s

RECURSIVE rstrip(_)
rstrip(s) ==
    IF s # <<>> /\ s[Len(s)] = " " THEN rstrip(SubSeq(s, 1, Len(s) - 1)) ELSE s

strip(s) == rstrip(lstrip(s))

\* k in s, for texts
Contains(s, k) ==
    \E i \in 0..(Len(s) - Len(k)) : SubSeq(s, i + 1, i + Len(k)) = k

\* the handlers' for loop: the first index where task.get("id") raises or equals
\* `id`, 0 if the loop runs to its end
LoopStops(ts, id, i) == ~IsRecord(ts[i]) \/ ts[i].id = id

\* variant: after a loop without a match, the loop variable still names the last task
FirstWithId_leak(ts, id) ==
    IF \E i \in 1..Len(ts) : LoopStops(ts, id, i)
    THEN CHOOSE i \in 1..Len(ts) :
            LoopStops(ts, id, i) /\ \A j \in 1..(i - 1) : ~LoopStops(ts, id, j)
    ELSE Len(ts)

FirstWithId(ts, id) ==
    IF \E i \in 1..Len(ts) : LoopStops(ts, id, i)
    THEN CHOOSE i \in 1..Len(ts) :
            LoopStops(ts, id, i) /\ \A j \in 1..(i - 1) : ~LoopStops(ts, id, j)
    ELSE 0

\* variant: list.pop() in place of list.remove(task)
RemoveAt_pop(ts, k) == SubSeq(ts, 1, Len(ts) - 1)

\* list.remove of the element found at index k
RemoveAt(ts, k) == SubSeq(ts, 1, k - 1) \o SubSeq(ts, k + 1, Len(ts))

(* ------------------------------------------------------------- the state *)
NoArg == [id |-> 0, title |-> <<>>, due |-> None, tag |-> None,
          include_done |-> FALSE, only_done |-> FALSE, overdue_only |-> FALSE,
          today |-> Jan1]
NoOut == [msg |-> "", status |-> 0, rows |-> <<>>]
NoPrev == [cmd |-> "", id |-> 0, msg |-> ""]

\* an empty store: no file, a blank file, the empty list
InitFiles == {Absent, Blank, JsonList(<<>>)}

InitLocal ==
    /\ pc = [p \in Procs |-> "idle"]
    /\ cmd = [p \in Procs |-> ""]
    /\ arg = [p \in Procs |-> NoArg]
    /\ tasks = [p \in Procs |-> <<>>]
    /\ out = [p \in Procs |-> NoOut]
    /\ prev = [p \in Procs |-> NoPrev]
    /\ stdin = [p \in Procs |-> <<>>]
    /\ assigned = {}
    /\ runs = 0

Init ==
    /\ file \in InitFiles
    /\ InitLocal

\* main(): argparse dispatches to the handler; the invocation before is history
Invoke(p, c, a) ==
    /\ pc[p] = "idle"
    /\ runs' = runs + 1
    /\ cmd' = [cmd EXCEPT ![p] = c]
    /\ arg' = [arg EXCEPT ![p] = a]
    /\ prev' = [prev EXCEPT ![p] = [cmd |-> cmd[p], id |-> arg[p].id, msg |-> out[p].msg]]

\* sys.exit(1) in load_tasks: message on stderr, nothing else happens
Fatal(p, msg) ==
    /\ out' = [out EXCEPT ![p] = [msg |-> msg, status |-> 1, rows |-> <<>>]]
    /\ pc' = [pc EXCEPT ![p] = "idle"]
    /\ UNCHANGED <<file, tasks, stdin, assigned>>

\* an exception nobody catches: traceback on stderr, exit status 1
Crash(p) ==
    /\ out' = [out EXCEPT ![p] = [msg |-> "traceback", status |-> 1, rows |-> <<>>]]
    /\ pc' = [pc EXCEPT ![p] = "idle"]

\* the handler returns: message on stdout, exit status 0
Return(p, msg, rows) ==
    /\ out' = [out EXCEPT ![p] = [msg |-> msg, status |-> 0, rows |-> rows]]
    /\ pc' = [pc EXCEPT ![p] = "idle"]

(* ------------------------------------------------------------------- add *)
\* cmd_add up to load_tasks()
cmd_add_load(p, title, due, tag) ==
    /\ due # None => parse_date(due[1])
    /\ Invoke(p, "add", [NoArg EXCEPT !.title = title, !.due = due, !.tag = tag])
    /\ LET l == load_tasks(file) IN
        IF ~l.ok THEN Fatal(p, l.msg)
        ELSE /\ tasks' = [tasks EXCEPT ![p] = l.data]
             /\ pc' = [pc EXCEPT ![p] = "add"]
             /\ UNCHANGED <<file, out, stdin, assigned>>

\* variant: the task appended to the list as the file holds it at the save
cmd_add_save_reload(p, now) ==
    /\ pc[p] = "add"
    /\ LET cur == load_tasks(file).data
           task == [id |-> next_id(cur), title |-> arg[p].title,
                    created_at |-> now, due |-> arg[p].due, tag |-> arg[p].tag,
                    done |-> FALSE, done_at |-> None]
           new == Append(cur, task)
       IN /\ tasks' = [tasks EXCEPT ![p] = new]
          /\ file' = save_tasks(new)
          /\ assigned' = assigned \cup {task.id}
          /\ Return(p, "added", <<task>>)
    /\ UNCHANGED <<cmd, arg, prev, stdin, runs>>

\* cmd_add from the construction of the task to print(task["id"])
cmd_add_save(p, now) ==
    /\ pc[p] = "add"
    /\ IF HasNonRecord(tasks[p])
       THEN /\ Crash(p)
            /\ UNCHANGED <<file, tasks, assigned>>
       ELSE LET task == [id |-> next_id(tasks[p]), title |-> arg[p].title,
                         created_at |-> now, due |-> arg[p].due, tag |-> arg[p].tag,
                         done |-> FALSE, done_at |-> None]
                new == Append(tasks[p], task)
            IN /\ tasks' = [tasks EXCEPT ![p] = new]
               /\ file' = save_tasks(new)
               /\ assigned' = assigned \cup {task.id}
               /\ Return(p, "added", <<task>>)
    /\ UNCHANGED <<cmd, arg, prev, stdin, runs>>

(* ------------------------------------------------------------------ done *)
\* variant: no check of task.get("done"), a done task is completed again
cmd_done_load_nocheck(p, id) ==
    /\ Invoke(p, "done", [NoArg EXCEPT !.id = id])
    /\ LET l == load_tasks(file)
           k == FirstWithId(l.data, id)
       IN IF ~l.ok THEN Fatal(p, l.msg)
          ELSE /\ tasks' = [tasks EXCEPT ![p] = l.data]
               /\ UNCHANGED <<file, stdin, assigned>>
               /\ IF k = 0 THEN Return(p, "not_found", <<>>)
                  ELSE IF ~IsRecord(l.data[k]) THEN Crash(p)
                  ELSE /\ pc' = [pc EXCEPT ![p] = "done"]
                       /\ UNCHANGED out

\* cmd_done: load_tasks(), the for loop up to the task found, and the two returns
\* that save nothing
cmd_done_load(p, id) ==
    /\ Invoke(p, "done", [NoArg EXCEPT !.id = id])
    /\ LET l == load_tasks(file)
           k == FirstWithId(l.data, id)
       IN IF ~l.ok THEN Fatal(p, l.msg)
          ELSE /\ tasks' = [tasks EXCEPT ![p] = l.data]
               /\ UNCHANGED <<file, stdin, assigned>>
               /\ IF k = 0 THEN Return(p, "not_found", <<>>)
                  ELSE IF ~IsRecord(l.data[k]) THEN Crash(p)
                  ELSE IF l.data[k].done THEN Return(p, "already_done", <<>>)
                  ELSE /\ pc' = [pc EXCEPT ![p] = "done"]
                       /\ UNCHANGED out

\* variant: done set, done_at left as it was
cmd_done_save_nostamp(p, now) ==
    /\ pc[p] = "done"
    /\ LET k == FirstWithId(tasks[p], arg[p].id)
           new == [tasks[p] EXCEPT ![k].done = TRUE]
       IN /\ tasks' = [tasks EXCEPT ![p] = new]
          /\ file' = save_tasks(new)
          /\ Return(p, "completed", <<>>)
    /\ UNCHANGED <<cmd, arg, prev, stdin, assigned, runs>>

\* cmd_done: task["done"] = True, task["done_at"] = now, save_tasks, print
cmd_done_save(p, now) ==
    /\ pc[p] = "done"
    /\ LET k == FirstWithId(tasks[p], arg[p].id)
           new == [tasks[p] EXCEPT ![k].done = TRUE, ![k].done_at = Some(now)]
       IN /\ tasks' = [tasks EXCEPT ![p] = new]
          /\ file' = save_tasks(new)
          /\ Return(p, "completed", <<>>)
    /\ UNCHANGED <<cmd, arg, prev, stdin, assigned, runs>>

(* ---------------------------------------------------------------- delete *)
\* cmd_delete: load_tasks(), the for loop up to the task found; input() blocks
cmd_delete_load(p, id) ==
    /\ Invoke(p, "delete", [NoArg EXCEPT !.id = id])
    /\ LET l == load_tasks(file)
           k == FirstWithId(l.data, id)
       IN IF ~l.ok THEN Fatal(p, l.msg)
          ELSE /\ tasks' = [tasks EXCEPT ![p] = l.data]
               /\ UNCHANGED <<file, stdin, assigned>>
               /\ IF k = 0 THEN Return(p, "not_found", <<>>)
                  ELSE IF ~IsRecord(l.data[k]) THEN Crash(p)
                  ELSE /\ pc' = [pc EXCEPT ![p] = "prompt"]
                       /\ UNCHANGED out

\* choice in {"y", "yes"}
Affirmative(line) == casefold(strip(line)) \in {<<"y">>, <<"y", "e", "s">>}

\* cmd_delete from the answer to the prompt to its return
cmd_delete_answer(p, line) ==
    /\ pc[p] = "prompt"
    /\ stdin' = [stdin EXCEPT ![p] = line]
    /\ IF ~Affirmative(line)
       THEN /\ Return(p, "cancelled", <<>>)
            /\ UNCHANGED <<file, tasks>>
       ELSE LET new == RemoveAt(tasks[p], FirstWithId(tasks[p], arg[p].id))
            IN /\ tasks' = [tasks EXCEPT ![p] = new]
               /\ file' = save_tasks(new)
               /\ Return(p, "deleted", <<>>)
    /\ UNCHANGED <<cmd, arg, prev, assigned, runs>>

(* ------------------------------------------------------ list, today, search *)
\* print_table(rows), or the message for no rows
Show(p, rows, none) == Return(p, IF rows = <<>> THEN none ELSE "table", rows)

cmd_list(p, o, today) ==
    /\ Invoke(p, "list", [NoArg EXCEPT !.include_done = o.include_done,
                                       !.only_done = o.only_done, !.tag = o.tag,
                                       !.overdue_only = o.overdue_only,
                                       !.today = today])
    /\ LET l == load_tasks(file) IN
        IF ~l.ok THEN Fatal(p, l.msg)
        ELSE /\ tasks' = [tasks EXCEPT ![p] = l.data]
             /\ UNCHANGED <<file, stdin, assigned>>
             /\ IF HasNonRecord(l.data) THEN Crash(p)
                ELSE Show(p, filter_tasks(l.data, o.include_done, o.only_done, o.tag,
                                             o.overdue_only, today), "no_tasks")

cmd_today(p, today) ==
    /\ Invoke(p, "today", [NoArg EXCEPT !.today = today])
    /\ LET l == load_tasks(file) IN
        IF ~l.ok THEN Fatal(p, l.msg)
        ELSE /\ tasks' = [tasks EXCEPT ![p] = l.data]
             /\ UNCHANGED <<file, stdin, assigned>>
             /\ IF HasNonRecord(l.data) THEN Crash(p)
                ELSE Show(p, SortedById(SelectIdx(l.data,
                                {i \in 1..Len(l.data) :
                                    ~l.data[i].done /\ l.data[i].due = Some(today)}, 1)),
                          "none_today")

cmd_search(p, keyword) ==
    /\ Invoke(p, "search", [NoArg EXCEPT !.title = keyword])
    /\ LET l == load_tasks(file) IN
        IF ~l.ok THEN Fatal(p, l.msg)
        ELSE /\ tasks' = [tasks EXCEPT ![p] = l.data]
             /\ UNCHANGED <<file, stdin, assigned>>
             /\ IF HasNonRecord(l.data) THEN Crash(p)
                ELSE Show(p, SortedById(SelectIdx(l.data,
                                {i \in 1..Len(l.data) :
                                    Contains(casefold(l.data[i].title),
                                             casefold(keyword))}, 1)),
                          "no_match")

(* ------------------------------------------------------- specifications *)
\* what the command line supplies in Spec and SpecConc
AddInputs == {[title |-> <<"A", "b">>, due |-> None, tag |-> None],
              [title |-> <<"b">>, due |-> Some(Jan1), tag |-> Some("t")],
              [title |-> <<"b">>, due |-> Some(Feb30), tag |-> None]}
Flags(i, d, o, t) == [include_done |-> i, only_done |-> d, overdue_only |-> o, tag |-> t]
ListInputs == {Flags(FALSE, FALSE, FALSE, None), Flags(FALSE, TRUE, FALSE, None),
               Flags(TRUE, FALSE, TRUE, Some("t"))}
AllFlags == {Flags(i, d, o, t) : i \in BOOLEAN, d \in BOOLEAN, o \in BOOLEAN,
                                 t \in {None} \cup {Some(x) : x \in Tags}}

\* a behaviour starts at most n invocations
Budget(n) == runs < n

\* the ids that can be in the store when one more of n invocations starts
ArgIds(n) == 1..(n - 1)

\* one invocation at a time, of any command
Next ==
    \E p \in SeqProcs :
        \/ \E a \in AddInputs : Budget(MaxRuns) /\ cmd_add_load(p, a.title, a.due, a.tag)
        \/ \E now \in Times : cmd_add_save(p, now)
        \/ \E id \in ArgIds(MaxRuns) : Budget(MaxRuns) /\ cmd_done_load(p, id)
        \/ \E now \in Times : cmd_done_save(p, now)
        \/ \E id \in ArgIds(MaxRuns) : Budget(MaxRuns) /\ cmd_delete_load(p, id)
        \/ \E line \in Answers : cmd_delete_answer(p, line)
        \/ \E o \in ListInputs : Budget(MaxRuns) /\ cmd_list(p, o, Jan2)
        \/ Budget(MaxRuns) /\ cmd_today(p, Jan1)
        \/ \E k \in Keywords : Budget(MaxRuns) /\ cmd_search(p, k)

Spec == Init /\ [][Next]_vars

\* the saving commands of two processes, interleaved at their loads, prompts and saves
NextConc ==
    \E p \in Procs :
        \/ \E a \in AddInputs : Budget(MaxConcRuns) /\ cmd_add_load(p, a.title, a.due, a.tag)
        \/ \E now \in Times : cmd_add_save(p, now)
        \/ \E id \in ArgIds(MaxConcRuns) : Budget(MaxConcRuns) /\ cmd_done_load(p, id)
        \/ \E now \in Times : cmd_done_save(p, now)
        \/ \E id \in ArgIds(MaxConcRuns) : Budget(MaxConcRuns) /\ cmd_delete_load(p, id)
        \/ \E line \in Answers : cmd_delete_answer(p, line)

SpecConc == Init /\ [][NextConc]_vars

\* a store somebody else wrote: no JSON, no list, a list with an element that is no
\* record, or nothing
Task1 == [id |-> 1, title |-> <<"b">>, created_at |-> 0, due |-> None, tag |-> None,
          done |-> FALSE, done_at |-> None]
ForeignFiles == {Absent, Blank, BadJson, NotList, JsonList(<<NonRecord>>),
                 JsonList(<<Task1, NonRecord>>)}

InitForeign ==
    /\ file \in ForeignFiles
    /\ InitLocal

SpecForeign == InitForeign /\ [][Next]_vars

\* filter_tasks on any stored collection: records with ids out of order and repeated,
\* done or not, with and without tag and due date
FilterTasks ==
    {[id |-> i, title |-> <<"b">>, created_at |-> 0, due |-> d, tag |-> t,
      done |-> (a # None), done_at |-> a] :
        i \in {1, 2}, d \in {None, Some(Jan1)},
        t \in {None} \cup {Some(x) : x \in Tags}, a \in {None, Some(0)}}

Collections == UNION {[1..n -> FilterTasks] : n \in 0..MaxColl}

InitFilter ==
    /\ file \in {JsonList(c) : c \in Collections}
    /\ InitLocal

NextFilter ==
    \E p \in SeqProcs :
        \E o \in AllFlags : Budget(1) /\ cmd_list(p, o, Jan2)

SpecFilter == InitFilter /\ [][NextFilter]_vars

(* ------------------------------------------------------------------ C9 *)
Count(ts, t) == Cardinality({i \in 1..Len(ts) : ts[i] = t})

AscendingById(ts) == \A i, j \in 1..Len(ts) : i < j => ts[i].id <= ts[j].id

\* `list` without options has run on process p
ListedDefault(p) ==
    /\ cmd[p] = "list" /\ pc[p] = "idle" /\ out[p].status = 0
    /\ ~arg[p].include_done /\ ~arg[p].only_done /\ ~arg[p].overdue_only
    /\ arg[p].tag = None

\* C9: filter with no options returns exactly the not-done tasks of the collection,
\* ascending by id, and with filter(only_done) it partitions the collection: every
\* stored record is in exactly one of the two results, as often as it is stored.
C9_DefaultFilterPartitions ==
    \A p \in SeqProcs :
        ListedDefault(p) =>
            LET c == load_tasks(file).data
                open == out[p].rows
                closed == filter_tasks(c, FALSE, TRUE, None, FALSE, arg[p].today)
            IN /\ AscendingById(open)
               /\ AscendingById(closed)
               /\ \A t \in FilterTasks :
                    /\ Count(open, t) = (IF t.done THEN 0 ELSE Count(c, t))
                    /\ Count(open, t) + Count(closed, t) = Count(c, t)
                    /\ Count(open, t) = 0 \/ Count(closed, t) = 0

\* a collection stored out of id order, with a done and two not-done tasks, was listed
C9_Witness ==
    /\ ListedDefault(1)
    /\ Len(file.tasks) = 3
    /\ file.tasks[1].id > file.tasks[3].id
    /\ ~file.tasks[1].done /\ file.tasks[2].done /\ ~file.tasks[3].done
    /\ out[1].rows = <<file.tasks[3], file.tasks[1]>>

(* ------------------------------------------- the claims about the store *)
Stored == load_tasks(file).data

\* process p, the one process of Spec, starts an invocation in this step
Starts(p) == pc[p] = "idle" /\ runs' = runs + 1

\* new is old with the first task of that id taken out, the rest as they were
RemovedOne(old, new, id) ==
    /\ Len(new) = Len(old) - 1
    /\ \E k \in 1..Len(old) :
        /\ old[k].id = id
        /\ \A i \in 1..(k - 1) : new[i] = old[i] /\ old[i].id # id
        /\ \A i \in k..Len(new) : new[i] = old[i + 1]

(* ------------------------------------------------------------------ C1 *)
\* C1: the id an add assigns is none of the ids an earlier add assigned, the ids of
\* tasks deleted since included.
C1_IdsNeverReused ==
    [][\A p \in SeqProcs :
        (pc[p] = "add" /\ pc'[p] = "idle") => out'[p].rows[1].id \notin assigned]_vars

(* ------------------------------------------------------------------ C2 *)
\* C2: from an empty or absent store, after any sequence of invocations, no two
\* stored tasks have the same id.
C2_UniqueIds ==
    \A i, j \in 1..Len(file.tasks) : i # j => file.tasks[i].id # file.tasks[j].id

\* tasks 2 and 3 are stored and task 1, added before them, was deleted
C2_Witness ==
    /\ Len(file.tasks) = 2
    /\ file.tasks[1].id = 2 /\ file.tasks[2].id = 3
    /\ 1 \in assigned

(* ------------------------------------------------------------------ C3 *)
\* C3: every stored task has done_at present exactly if done is true.
C3_DoneAtIffDone ==
    \A i \in 1..Len(file.tasks) : (file.tasks[i].done_at # None) <=> file.tasks[i].done

C3_Witness ==
    /\ Len(file.tasks) = 2
    /\ file.tasks[1].done /\ file.tasks[1].done_at = Some(1)
    /\ ~file.tasks[2].done /\ file.tasks[2].done_at = None
    /\ out[1].msg = "completed"

(* ------------------------------------------------------------------ C4 *)
\* C4: done on a task that is not done ends with Completed, and done again on the
\* same id right after ends with AlreadyDone at once, without a save: the file is
\* as it was.
C4_CompleteIdempotent ==
    [][\A p \in SeqProcs :
        /\ (pc[p] = "done" /\ pc'[p] = "idle") =>
                /\ out'[p].msg = "completed" /\ out'[p].status = 0
                /\ \E i \in 1..Len(file'.tasks) :
                        /\ file'.tasks[i].id = arg[p].id
                        /\ file'.tasks[i].done /\ file'.tasks[i].done_at # None
        /\ (Starts(p) /\ cmd[p] = "done" /\ out[p].msg = "completed"
                /\ cmd'[p] = "done" /\ arg'[p].id = arg[p].id) =>
                /\ out'[p].msg = "already_done" /\ out'[p].status = 0
                /\ pc'[p] = "idle"
                /\ file' = file]_vars

C4_Witness ==
    /\ prev[1] = [cmd |-> "done", id |-> 1, msg |-> "completed"]
    /\ cmd[1] = "done" /\ arg[1].id = 1 /\ pc[1] = "idle"
    /\ out[1].msg = "already_done"
    /\ file.tasks[1].done_at = Some(0)

(* ------------------------------------------------------------------ C5 *)
\* C5: done or delete with an id no loaded task has reports not-found with exit
\* status 0 at once: no prompt, no save, the file as it was.
C5_NotFoundNoMutation ==
    [][\A p \in SeqProcs :
        (/\ Starts(p)
         /\ cmd'[p] \in {"done", "delete"}
         /\ load_tasks(file).ok
         /\ \A i \in 1..Len(Stored) : Stored[i].id # arg'[p].id) =>
            /\ out'[p].msg = "not_found" /\ out'[p].status = 0
            /\ pc'[p] = "idle"
            /\ file' = file]_vars

C5_Witness ==
    /\ cmd[1] = "delete" /\ arg[1].id = 1 /\ out[1].msg = "not_found"
    /\ Len(file.tasks) = 2

(* ------------------------------------------------------------------ C6 *)
\* the answers of Answers that are y or yes once stripped and lowered
SaidYes(line) == line \in {<<"y">>, <<" ", "Y", "E", "S", " ">>}

\* C6: a delete invocation changes the file only in the step that reads an
\* affirmative answer at its prompt; any other answer leaves the file as it was;
\* an affirmative one removes the task of that id and nothing else, the others
\* in their order.
C6_DeleteOnlyAfterYes ==
    [][\A p \in SeqProcs :
        (cmd'[p] = "delete" /\ (Starts(p) \/ pc[p] = "prompt")) =>
            /\ file' # file => pc[p] = "prompt" /\ SaidYes(stdin'[p])
            /\ (pc[p] = "prompt" /\ ~SaidYes(stdin'[p])) => file' = file
            /\ (pc[p] = "prompt" /\ SaidYes(stdin'[p])) =>
                    /\ file'.kind = "list"
                    /\ RemovedOne(Stored, file'.tasks, arg[p].id)
                    /\ \A i \in 1..Len(file'.tasks) : file'.tasks[i].id # arg[p].id]_vars

\* the middle one of three tasks was deleted on " YES "
C6_Witness ==
    /\ cmd[1] = "delete" /\ arg[1].id = 2 /\ out[1].msg = "deleted"
    /\ stdin[1] = <<" ", "Y", "E", "S", " ">>
    /\ Len(file.tasks) = 2
    /\ file.tasks[1].id = 1 /\ file.tasks[2].id = 3

(* ------------------------------------------------------------------ C8 *)
\* the file exists, is not blank, and is not parseable or no sequence of records
Malformed(f) == f.kind \in {"badjson", "notlist"} \/ HasNonRecord(f.tasks)

\* C8: while the file is malformed, no step changes it and every invocation that
\* ends has printed a message and exits non-zero; on an absent or blank file every
\* command loads the empty list and goes on.
C8_CorruptStoreFatal ==
    [][/\ Malformed(file) => file' = file
       /\ \A p \in SeqProcs :
            /\ (Malformed(file) /\ pc'[p] = "idle" /\ (pc[p] # "idle" \/ Starts(p))) =>
                    out'[p].status # 0 /\ out'[p].msg # ""
            /\ (Starts(p) /\ file.kind \in {"absent", "blank"}) =>
                    /\ tasks'[p] = <<>>
                    /\ pc'[p] = "idle" => out'[p].status = 0]_vars

(* ----------------------------------------------------------------- C10 *)
\* C10: in every step, a stored task that is done is stored unchanged afterwards
\* (done, done_at and created_at as they were), or no task of its id is stored.
C10_CompletionOneWay ==
    [][\A i \in 1..Len(file.tasks) :
        file.tasks[i].done =>
            \/ \E j \in 1..Len(file'.tasks) : file'.tasks[j] = file.tasks[i]
            \/ \A j \in 1..Len(file'.tasks) : file'.tasks[j].id # file.tasks[i].id]_vars

\* a task completed at time 0 is still so after a done on it at a later run and an add
C10_Witness ==
    /\ Len(file.tasks) = 2
    /\ file.tasks[1].done /\ file.tasks[1].done_at = Some(0)
    /\ prev[1] = [cmd |-> "done", id |-> 1, msg |-> "already_done"]
    /\ cmd[1] = "add" /\ out[1].msg = "added"

(* ------------------------------------------------------------------ C7 *)
\* process q saves in this step
Saves(q) ==
    /\ pc[q] \in {"add", "done", "prompt"} /\ pc'[q] = "idle"
    /\ out'[q].msg \in {"added", "completed", "deleted"}

\* the list q loaded with q's own change applied
OwnChange(q, old, new) ==
    IF cmd[q] = "add"
    THEN /\ Len(new) = Len(old) + 1
         /\ SubSeq(new, 1, Len(old)) = old
         /\ new[Len(new)].title = arg[q].title /\ ~new[Len(new)].done
    ELSE IF cmd[q] = "done"
    THEN /\ Len(new) = Len(old)
         /\ \E k \in 1..Len(old) :
                /\ old[k].id = arg[q].id
                /\ new[k].done_at # None
                /\ new = [old EXCEPT ![k].done = TRUE, ![k].done_at = new[k].done_at]
    ELSE RemovedOne(old, new, arg[q].id)

\* C7: when another invocation has saved since q loaded, q's save does not fail
\* and leaves in the file the list q loaded with q's change alone: what the other
\* one saved is gone.
C7_LastWriterWins ==
    [][\A q \in Procs :
        (Saves(q) /\ Stored # tasks[q]) =>
            /\ file'.kind = "list"
            /\ OwnChange(q, tasks[q], file'.tasks)
            /\ out'[q].status = 0]_vars

\* 2 completed task 1 and 1 added task 2 from a list loaded before: both exited
\* with 0 and task 1 is stored not done
C7_Witness ==
    /\ pc[1] = "idle" /\ pc[2] = "idle"
    /\ cmd[2] = "done" /\ arg[2].id = 1
    /\ out[2] = [msg |-> "completed", status |-> 0, rows |-> <<>>]
    /\ cmd[1] = "add" /\ out[1].msg = "added" /\ out[1].status = 0
    /\ Len(file.tasks) = 2
    /\ file.tasks[1].id = 1 /\ ~file.tasks[1].done

====
